---- MODULE Spec2Model ----
(***************************************************************************)
(* python-aws-ssm: ParameterStore (python_aws_ssm/parameters.py).          *)
(*                                                                         *)
(* A str is a sequence of one-character strings; a Python value is a       *)
(* tagged record (None, a str value, a nested dict). The dict that        *)
(* get_parameters_by_path builds from the response is kept in insertion    *)
(* order, because _parse_parameters iterates over it; the nested dicts     *)
(* that _deep_merge builds are compared with == only and are functions.    *)
(***************************************************************************)
EXTENDS Integers, Sequences, FiniteSets, TLC

VARIABLES
    store,        \* the parameters the collaborator holds (written by put_parameter)
    call,         \* the ParameterStore method being executed and its arguments
    requests,     \* the requests the call has sent to self.client
    response,     \* what self.client answered to the request
    outcome,      \* what the call gives its caller: a return value or an exception
    parsed_dict,  \* _parse_parameters: the accumulator of the loop
    pending       \* _parse_parameters: the items the loop has not visited yet

vars == <<store, call, requests, response, outcome, parsed_dict, pending>>

----------------------------------------------------------------------------
(* Bounds of the model.                                                    *)

MaxTailLen == 3      \* longest rest of a name after the base path
MaxEntries == 1      \* most entries in a by-path response
MaxNames == 2        \* most names in a get_parameters request
MaxReturned == 2     \* most entries in a get_parameters response
MaxInvalid == 1      \* most names in InvalidParameters
MaxVersion == 2      \* highest version the collaborator's store counts to
MaxMerged == 2       \* most items merged by one _parse_parameters run

Sep == "/"
Chars == {Sep, "a"}

RECURSIVE StrsOfLen(_)
StrsOfLen(n) ==
    IF n = 0 THEN {<<>>}
    ELSE {<<c>> \o s : c \in Chars, s \in StrsOfLen(n - 1)}

StrsUpTo(n) == UNION {StrsOfLen(k) : k \in 0..n}

RECURSIVE SeqsUpTo(_, _)
SeqsUpTo(S, n) ==
    IF n = 0 THEN {<<>>}
    ELSE SeqsUpTo(S, n - 1) \cup
         {Append(s, e) : s \in {t \in SeqsUpTo(S, n - 1) : Len(t) = n - 1}, e \in S}

Range(s) == {s[i] : i \in 1..Len(s)}

Distinct(s) == \A i, j \in 1..Len(s) : s[i] = s[j] => i = j

----------------------------------------------------------------------------
(* Python values.                                                          *)

None == [t |-> "None"]

Str(s) == [t |-> "str", s |-> s]

Dict(f) == [t |-> "dict", d |-> f]

IsDict(x) == x.t = "dict"

EmptyDict == Dict(<<>>)

\* dict.get(key): the value, or None when the key is absent.
DictGet(x, key) == IF key \in DOMAIN x.d THEN x.d[key] ELSE None

\* An insertion-ordered dict: a sequence of items with pairwise distinct keys.
Keys(items) == {items[i].k : i \in 1..Len(items)}

Lookup(items, key) == (CHOOSE i \in 1..Len(items) : items[i].k = key)

ValueOf(items, key) == items[Lookup(items, key)].v

\* d[key] = value: a present key keeps its position, a new key is appended.
SetItem(items, key, value) ==
    IF key \in Keys(items)
    THEN [items EXCEPT ![Lookup(items, key)] = [k |-> key, v |-> value]]
    ELSE Append(items, [k |-> key, v |-> value])

----------------------------------------------------------------------------
(* str methods.                                                            *)

StartsAt(s, sub, i) ==
    /\ i + Len(sub) - 1 <= Len(s)
    /\ \A j \in 1..Len(sub) : s[i + j - 1] = sub[j]

\* s.replace(old, ""): every non-overlapping occurrence of old, found from
\* the left, is removed; an empty old leaves s as it is.
RECURSIVE ReplaceFrom(_, _, _)
ReplaceFrom(s, old, i) ==
    IF i > Len(s) THEN <<>>
    ELSE IF StartsAt(s, old, i) THEN ReplaceFrom(s, old, i + Len(old))
    ELSE <<s[i]>> \o ReplaceFrom(s, old, i + 1)

Replace(s, old) == IF old = <<>> THEN s ELSE ReplaceFrom(s, old, 1)

\* s.lstrip("/")
RECURSIVE LStrip(_)
LStrip(s) == IF s # <<>> /\ Head(s) = Sep THEN LStrip(Tail(s)) ELSE s

\* s.split("/"): always at least one segment, empty segments kept.
RECURSIVE Split(_)
Split(s) ==
    IF \A i \in 1..Len(s) : s[i] # Sep THEN <<s>>
    ELSE LET i == CHOOSE j \in 1..Len(s) :
                      s[j] = Sep /\ \A m \in 1..(j - 1) : s[m] # Sep
         IN  <<SubSeq(s, 1, i - 1)>> \o Split(SubSeq(s, i + 1, Len(s)))

----------------------------------------------------------------------------
(* Outcomes of a call and answers of the collaborator.                     *)

Returned(value) == [kind |-> "return", value |-> value]

Raised(error) == [kind |-> "raise", error |-> error]

MissingParameterError(parameter_names, parameter_path) ==
    [type |-> "MissingParameterError",
     parameter_names |-> parameter_names,
     parameter_path |-> parameter_path]

InvalidParametersError(invalid_parameters) ==
    [type |-> "InvalidParametersError", invalid_parameters |-> invalid_parameters]

\* An exception raised inside self.client (botocore's ClientError with its code).
ClientError(code) == [type |-> "ClientError", code |-> code]

\* The returned flat dict, in insertion order.
FlatDict(items) == [t |-> "flat", items |-> items]

----------------------------------------------------------------------------
(* ParameterStore: the static helpers.                                     *)

\* for key in reversed(key_list[:i]): tree_dict = {key: tree_dict}
RECURSIVE WrapKeys(_, _, _)
WrapKeys(key_list, i, tree) ==
    IF i = 0 THEN tree
    ELSE WrapKeys(key_list, i - 1, Dict(key_list[i] :> tree))

tree_dict(key_list, value) ==
    WrapKeys(key_list, Len(key_list) - 1, Dict(key_list[Len(key_list)] :> value))

\* A merge of the top level only: {**a, **b}.
shallow_merge(a, b) ==
    IF ~IsDict(a) \/ ~IsDict(b)
    THEN IF b = None THEN a ELSE b
    ELSE Dict([key \in (DOMAIN a.d) \cup (DOMAIN b.d) |->
                   IF key \in DOMAIN b.d THEN b.d[key] ELSE a.d[key]])

RECURSIVE deep_merge(_, _)
deep_merge(a, b) ==
    IF ~IsDict(a) \/ ~IsDict(b)
    THEN IF b = None THEN a ELSE b
    ELSE Dict([key \in (DOMAIN a.d) \cup (DOMAIN b.d) |->
                   deep_merge(DictGet(a, key), DictGet(b, key))])

\* One pass with the sides of the merge exchanged: the accumulator wins.
MergeItemEarlierWins(acc, key, value) == deep_merge(tree_dict(Split(key), value), acc)

\* One pass of the loop of _parse_parameters.
MergeItem(acc, key, value) == deep_merge(acc, tree_dict(Split(key), value))

RECURSIVE ParseFrom(_, _, _)
ParseFrom(parameters, i, acc) ==
    IF i > Len(parameters) THEN acc
    ELSE ParseFrom(parameters, i + 1,
                   MergeItem(acc, parameters[i].k, parameters[i].v))

parse_parameters(parameters) == ParseFrom(parameters, 1, EmptyDict)

RECURSIVE StripFrom(_, _, _)
StripFrom(parameters, i, acc) ==
    IF i > Len(parameters) THEN acc
    ELSE StripFrom(parameters, i + 1,
                   SetItem(acc, LStrip(parameters[i].k), parameters[i].v))

\* The keys returned as they are, with no lstrip.
strip_leading_slashes_kept(parameters) == parameters

strip_leading_slashes(parameters) == StripFrom(parameters, 1, <<>>)

\* The names of required_parameters, in the order the set is iterated, that
\* are no key of actual_parameters.
MissingParameters(required_parameters, actual_parameters) ==
    LET IsMissing(parameter_name) == parameter_name \notin Keys(actual_parameters)
    IN  SelectSeq(required_parameters, IsMissing)

----------------------------------------------------------------------------
(* ParameterStore.get_parameters_by_path.                                  *)

\* {parameter.get("Name").replace(ssm_base_path, ""): parameter.get("Value")
\*  for parameter in parameters}
RECURSIVE FlatFrom(_, _, _, _)
FlatFrom(ssm_base_path, entries, i, acc) ==
    IF i > Len(entries) THEN acc
    ELSE FlatFrom(ssm_base_path, entries, i + 1,
                  SetItem(acc, Replace(entries[i].Name, ssm_base_path),
                          entries[i].Value))

SuffixMap(ssm_base_path, entries) == FlatFrom(ssm_base_path, entries, 1, <<>>)

ByPathRequest(ssm_base_path, with_decryption, recursive) ==
    [op |-> "get_parameters_by_path", Path |-> ssm_base_path,
     Recursive |-> recursive, WithDecryption |-> with_decryption]

\* What the call does with the entries of the response; required_parameters
\* is the set in the order it is iterated.
ByPathResult(ssm_base_path, recursive, nested, required_parameters, entries) ==
    LET parameters == SuffixMap(ssm_base_path, entries)
        missing_parameters ==
            IF required_parameters # <<>>
            THEN MissingParameters(required_parameters, parameters)
            ELSE <<>>
    IN  IF missing_parameters # <<>>
        THEN Raised(MissingParameterError(missing_parameters, ssm_base_path))
        ELSE IF recursive /\ nested
             THEN Returned(parse_parameters(parameters))
             ELSE Returned(FlatDict(strip_leading_slashes(parameters)))

\* The call with a failure of the request caught and an empty dict returned.
get_parameters_by_path_caught(ssm_base_path, recursive, nested, required_parameters, resp) ==
    IF resp.raised THEN Returned(FlatDict(<<>>))
    ELSE ByPathResult(ssm_base_path, recursive, nested, required_parameters,
                      resp.Parameters)

\* The outcome of the call once self.client has answered with resp: an
\* exception raised by self.client is not caught.
get_parameters_by_path(ssm_base_path, recursive, nested, required_parameters, resp) ==
    IF resp.raised THEN Raised(resp.error)
    ELSE ByPathResult(ssm_base_path, recursive, nested, required_parameters,
                      resp.Parameters)

----------------------------------------------------------------------------
(* ParameterStore.get_parameters.                                          *)

GetParametersRequest(ssm_key_names) ==
    [op |-> "get_parameters", Names |-> ssm_key_names, WithDecryption |-> TRUE]

\* {parameter_name: None for parameter_name in ssm_key_names}
RECURSIVE NoneFrom(_, _, _)
NoneFrom(ssm_key_names, i, acc) ==
    IF i > Len(ssm_key_names) THEN acc
    ELSE NoneFrom(ssm_key_names, i + 1, SetItem(acc, ssm_key_names[i], None))

\* FillFrom without the test that the returned name was requested.
RECURSIVE FillFromUnfiltered(_, _, _, _)
FillFromUnfiltered(ssm_key_names, retrieved_parameters, i, filled_parameters) ==
    IF i > Len(retrieved_parameters) THEN filled_parameters
    ELSE FillFromUnfiltered(ssm_key_names, retrieved_parameters, i + 1,
                            SetItem(filled_parameters, retrieved_parameters[i].Name,
                                    retrieved_parameters[i].Value))

RECURSIVE FillFrom(_, _, _, _)
FillFrom(ssm_key_names, retrieved_parameters, i, filled_parameters) ==
    IF i > Len(retrieved_parameters) THEN filled_parameters
    ELSE FillFrom(ssm_key_names, retrieved_parameters, i + 1,
                  IF retrieved_parameters[i].Name \in Range(ssm_key_names)
                  THEN SetItem(filled_parameters, retrieved_parameters[i].Name,
                               retrieved_parameters[i].Value)
                  ELSE filled_parameters)

\* A key of the response that may be missing: response.get(key).
Absent == [present |-> FALSE]

Present(list) == [present |-> TRUE, list |-> list]

\* response.get("InvalidParameters") is truthy: present and not empty.
Truthy(x) == x.present /\ x.list # <<>>

\* get_parameters that fills the result without looking at InvalidParameters.
get_parameters_unchecked(ssm_key_names, resp) ==
    IF resp.raised THEN Raised(resp.error)
    ELSE Returned(FlatDict(FillFrom(ssm_key_names, resp.Parameters, 1,
                                    NoneFrom(ssm_key_names, 1, <<>>))))

get_parameters(ssm_key_names, resp) ==
    IF resp.raised THEN Raised(resp.error)
    ELSE IF Truthy(resp.InvalidParameters)
    THEN Raised(InvalidParametersError(resp.InvalidParameters.list))
    ELSE Returned(FlatDict(FillFrom(ssm_key_names, resp.Parameters, 1,
                                    NoneFrom(ssm_key_names, 1, <<>>))))

----------------------------------------------------------------------------
(* ParameterStore.put_parameter and the collaborator's write.              *)

\* The request with Overwrite always set.
PutRequestForced(path, value, overwrite, tags) ==
    [op |-> "put_parameter", Name |-> path, Value |-> value, Type |-> "String",
     Overwrite |-> TRUE, Tags |-> tags, Tier |-> "Standard"]

PutRequest(path, value, overwrite, tags) ==
    [op |-> "put_parameter", Name |-> path, Value |-> value, Type |-> "String",
     Overwrite |-> overwrite, Tags |-> tags, Tier |-> "Standard"]

put_parameter(resp) ==
    IF resp.raised THEN Raised(resp.error)
    ELSE Returned([Tier |-> resp.Tier, Version |-> resp.Version])

NoValue == [present |-> FALSE]

Stored(value, version) == [present |-> TRUE, Value |-> value, Version |-> version]

\* The write fails when the name has a value and Overwrite is false.
AlreadyExists(st, request) == st[request.Name].present /\ ~request.Overwrite

NextVersion(st, request) ==
    IF st[request.Name].present THEN st[request.Name].Version + 1 ELSE 1

PutValueAnswer(st, request) ==
    IF AlreadyExists(st, request)
    THEN [raised |-> TRUE, error |-> ClientError("ParameterAlreadyExists")]
    ELSE [raised |-> FALSE, Tier |-> request.Tier,
          Version |-> NextVersion(st, request)]

PutValueStore(st, request) ==
    IF AlreadyExists(st, request) THEN st
    ELSE [st EXCEPT ![request.Name] =
              Stored(request.Value, NextVersion(st, request))]

\* Any other failure of a request: nothing is written, nothing is answered.
Failure == [raised |-> TRUE, error |-> ClientError("ThrottlingException")]

----------------------------------------------------------------------------
(* cli.put: the body of the command. The options and the FILE argument     *)
(* are the values the function is called with, None for one not given.     *)
(* exit is the name the module imports from os (cli.py line 6), which has  *)
(* no such name; the body is modelled as it reads, exit(n) ending the      *)
(* process with code n.                                                    *)

\* if x: for an option, neither None nor the empty string.
IsTrue(x) == x # None /\ x # Str("")

\* The text of a YAML file of top-level nodes with scalar values.
RECURSIVE YamlText(_)
YamlText(nodes) ==
    IF nodes = <<>> THEN ""
    ELSE Head(nodes).k \o ": " \o Head(nodes).v \o "\n" \o YamlText(Tail(nodes))

\* The files on disk: what each holds.
Documents ==
    [f1 |-> <<[k |-> "n1", v |-> "x"]>>,
     f2 |-> <<[k |-> "n1", v |-> "x"], [k |-> "n2", v |-> "y"]>>]

\* Path(file).read_text()
read_text(file) == YamlText(Documents[file])

\* safe_load(text): the nodes that the text holds.
safe_load(text) ==
    CHOOSE nodes \in {Documents[file] : file \in DOMAIN Documents} :
        YamlText(nodes) = text

\* dumps of a str.
dumps_str(s) == "\"" \o s \o "\""

RECURSIVE DumpsItems(_)
DumpsItems(nodes) ==
    IF nodes = <<>> THEN ""
    ELSE dumps_str(Head(nodes).k) \o ": " \o dumps_str(Head(nodes).v)
             \o (IF Tail(nodes) = <<>> THEN "" ELSE ", " \o DumpsItems(Tail(nodes)))

\* dumps of a mapping.
dumps(nodes) == "{" \o DumpsItems(nodes) \o "}"

\* yaml_data[yaml_node] does not raise KeyError.
HasNode(yaml_data, yaml_node) ==
    \E i \in 1..Len(yaml_data) : yaml_data[i].k = yaml_node

\* yaml_data[yaml_node]
Node(yaml_data, yaml_node) ==
    yaml_data[CHOOSE i \in 1..Len(yaml_data) : yaml_data[i].k = yaml_node].v

\* The process ends with this code.
Exit(code) == [kind |-> "exit", code |-> code]

\* An exception that nothing catches ends the process with code 1.
Uncaught(error) == [kind |-> "exit", code |-> 1, error |-> error]

UnboundLocalError == [type |-> "UnboundLocalError", name |-> "final_value"]

Bound(s) == [kind |-> "value", s |-> s]

Unbound == [kind |-> "unbound"]

\* Lines 100-114: final_value when the body reaches the put, or the exit
\* before it. With a file and no yaml_node nothing is assigned; with a
\* yaml_node found, the assignment of the node is followed by that of
\* dumps(yaml_data).
FinalValue(value, file, yaml_node) ==
    IF IsTrue(value) THEN Bound(value.s)
    ELSE IF IsTrue(file)
    THEN LET yaml_data == safe_load(read_text(file.s))
         IN  IF IsTrue(yaml_node)
             THEN IF HasNode(yaml_data, yaml_node.s)
                  THEN Bound(dumps(yaml_data))
                  ELSE Exit(-1)
             ELSE Unbound
    ELSE Exit(-2)

----------------------------------------------------------------------------
(* The inputs.                                                             *)

Values == {None, Str("v1")}

\* Base paths: none, the root, and two levels with and without the
\* trailing separator, one of them a string that names below it can repeat.
BasePaths ==
    {<<>>, <<Sep>>, <<Sep, "a">>, <<Sep, "a", Sep>>, <<Sep, "b">>, <<Sep, "b", Sep>>}

\* The names a listing under ssm_base_path can hold.
NamesUnder(ssm_base_path) == {ssm_base_path \o tail : tail \in StrsUpTo(MaxTailLen)}

EntryLists(names, n) ==
    SeqsUpTo([Name : names, Value : Values], n)

\* required_parameters: None or a set of names, in each order in which the
\* set can be iterated.
RequiredSets ==
    {<<>>, <<<<"a">>>>, <<<<Sep, "a">>>>, <<<<"a", Sep, "a">>>>,
     <<<<"a">>, <<"a", Sep, "a">>>>, <<<<"a", Sep, "a">>, <<"a">>>>}

KeyNames == {<<"a">>, <<"a", "a">>, <<Sep, "a">>}

PutPaths == {<<Sep, "a">>, <<Sep, "a", "a">>}

PutValues == {"v1", "v2"}

TagSets == {<<>>, <<"t">>}

\* --value
OptionValues == {None, Str(""), Str("v1")}

\* FILE
Files == {None, Str("f1"), Str("f2")}

\* --yaml-node
YamlNodes == {None, Str("n1"), Str("n2"), Str("n3")}

----------------------------------------------------------------------------
(* The calls.                                                              *)

NoCall == [op |-> "none"]

NoResponse == [raised |-> FALSE, none |-> TRUE]

NoOutcome == [kind |-> "none"]

Init ==
    /\ store = [path \in PutPaths |-> NoValue]
    /\ call = NoCall
    /\ requests = <<>>
    /\ response = NoResponse
    /\ outcome = NoOutcome
    /\ parsed_dict = EmptyDict
    /\ pending = {}

CallGetParameters(names, lists, invalids) ==
    /\ call = NoCall
    /\ \E ssm_key_names \in names,
          resp \in {Failure} \cup
                   {[raised |-> FALSE, Parameters |-> retrieved,
                     InvalidParameters |-> invalid] :
                        retrieved \in lists, invalid \in invalids} :
              /\ call' = [op |-> "get_parameters", ssm_key_names |-> ssm_key_names]
              /\ requests' = Append(requests, GetParametersRequest(ssm_key_names))
              /\ response' = resp
              /\ outcome' = get_parameters(ssm_key_names, resp)
    /\ UNCHANGED <<store, parsed_dict, pending>>

CallGetParametersByPath(paths, decryptions, n) ==
    /\ call = NoCall
    /\ \E ssm_base_path \in paths, with_decryption \in decryptions,
          recursive \in BOOLEAN, nested \in BOOLEAN,
          required_parameters \in RequiredSets :
          \E resp \in {Failure} \cup
                      {[raised |-> FALSE, Parameters |-> entries] :
                           entries \in EntryLists(NamesUnder(ssm_base_path), n)} :
                  /\ call' = [op |-> "get_parameters_by_path",
                              ssm_base_path |-> ssm_base_path,
                              with_decryption |-> with_decryption,
                              recursive |-> recursive, nested |-> nested,
                              required_parameters |-> required_parameters]
                  /\ requests' = Append(requests,
                         ByPathRequest(ssm_base_path, with_decryption, recursive))
                  /\ response' = resp
                  /\ outcome' = get_parameters_by_path(ssm_base_path, recursive,
                                    nested, required_parameters, resp)
    /\ UNCHANGED <<store, parsed_dict, pending>>

CallPutParameter ==
    /\ call = NoCall
    /\ \E path \in PutPaths, value \in PutValues, overwrite \in BOOLEAN,
          tags \in TagSets, fails \in BOOLEAN :
          LET request == PutRequest(path, value, overwrite, tags)
              resp == IF fails THEN Failure ELSE PutValueAnswer(store, request)
          IN  /\ fails \/ AlreadyExists(store, request)
                    \/ NextVersion(store, request) <= MaxVersion
              /\ call' = [op |-> "put_parameter", path |-> path, value |-> value,
                          overwrite |-> overwrite, tags |-> tags]
              /\ requests' = Append(requests, request)
              /\ response' = resp
              /\ store' = IF fails THEN store ELSE PutValueStore(store, request)
              /\ outcome' = put_parameter(resp)
    /\ UNCHANGED <<parsed_dict, pending>>

\* cli.put: the value is chosen, and unless the process has ended by then
\* parameter_store.put_parameter is called with the default tags; what it
\* raises is not caught.
CliPut ==
    /\ call = NoCall
    /\ \E value \in OptionValues, path \in PutPaths, yaml_node \in YamlNodes,
          overwrite \in BOOLEAN, file \in Files, fails \in BOOLEAN :
          LET final_value == FinalValue(value, file, yaml_node)
              request == PutRequest(path, final_value.s, overwrite, <<>>)
              resp == IF fails THEN Failure ELSE PutValueAnswer(store, request)
              ret == put_parameter(resp)
          IN  /\ call' = [op |-> "put", value |-> value, path |-> path,
                          yaml_node |-> yaml_node, overwrite |-> overwrite,
                          file |-> file]
              /\ IF final_value.kind = "value"
                 THEN /\ fails \/ AlreadyExists(store, request)
                            \/ NextVersion(store, request) <= MaxVersion
                      /\ requests' = Append(requests, request)
                      /\ response' = resp
                      /\ store' = IF fails THEN store
                                  ELSE PutValueStore(store, request)
                      /\ outcome' = IF ret.kind = "raise"
                                    THEN Uncaught(ret.error) ELSE Exit(0)
                 ELSE /\ ~fails
                      /\ requests' = requests
                      /\ response' = NoResponse
                      /\ store' = store
                      /\ outcome' = IF final_value.kind = "exit"
                                    THEN final_value
                                    ELSE Uncaught(UnboundLocalError)
    /\ UNCHANGED <<parsed_dict, pending>>

\* The call has ended and its outcome is with the caller.
Return ==
    /\ call # NoCall
    /\ call' = NoCall
    /\ requests' = <<>>
    /\ response' = NoResponse
    /\ outcome' = NoOutcome
    /\ UNCHANGED <<store, parsed_dict, pending>>

\* The whole ParameterStore against one collaborator.
Next ==
    \/ CallPutParameter
    \/ CallGetParameters(SeqsUpTo(KeyNames, 1), EntryLists(KeyNames, 1),
                         {Absent, Present(<<<<Sep, "a">>>>)})
    \/ CallGetParametersByPath({<<Sep, "b">>}, BOOLEAN, 1)
    \/ Return

Spec == Init /\ [][Next]_vars

\* get_parameters against every response of the collaborator.
NextBatch ==
    \/ CallGetParameters(SeqsUpTo(KeyNames, MaxNames),
                         EntryLists(KeyNames, MaxReturned),
                         {Absent} \cup {Present(l) : l \in SeqsUpTo(KeyNames, MaxInvalid)})
    \/ Return

SpecBatch == Init /\ [][NextBatch]_vars

\* get_parameters_by_path against every response of the collaborator.
NextPath ==
    \/ CallGetParametersByPath(BasePaths, {TRUE}, MaxEntries)
    \/ Return

SpecPath == Init /\ [][NextPath]_vars

\* The put command, run again and again against one collaborator.
NextCli ==
    \/ CliPut
    \/ Return

SpecCli == Init /\ [][NextCli]_vars

----------------------------------------------------------------------------
(* _parse_parameters, one pass of its loop at a time. The items of the     *)
(* dict are visited in its insertion order, which is the order of the      *)
(* response; here every order is taken.                                    *)

MergeKeys == StrsUpTo(MaxTailLen)

\* The sets of at most n items with pairwise distinct keys.
RECURSIVE ItemSets(_)
ItemSets(n) ==
    IF n = 0 THEN {{}}
    ELSE LET smaller == ItemSets(n - 1)
         IN  smaller \cup
             {items \cup {[k |-> key, v |-> value]} :
                  items \in smaller,
                  key \in MergeKeys,
                  value \in Values}

InitMerge ==
    /\ store = [path \in PutPaths |-> NoValue]
    /\ requests = <<>>
    /\ response = NoResponse
    /\ outcome = NoOutcome
    /\ parsed_dict = EmptyDict
    /\ pending \in {items \in ItemSets(MaxMerged) :
                       \A x, y \in items : x.k = y.k => x = y}
    /\ call = [op |-> "_parse_parameters", parameters |-> pending]

MergeNext ==
    /\ call # NoCall
    /\ \E item \in pending :
          /\ parsed_dict' = MergeItem(parsed_dict, item.k, item.v)
          /\ pending' = pending \ {item}
    /\ UNCHANGED <<store, call, requests, response, outcome>>

SpecMerge == InitMerge /\ [][MergeNext]_vars

----------------------------------------------------------------------------
(* get_parameters: the properties.                                         *)

\* The call is get_parameters and the collaborator has answered it.
BatchAnswered == call.op = "get_parameters" /\ ~response.raised

Returns(entries, name) == \E i \in 1..Len(entries) : entries[i].Name = name

\* The value of the last entry of the response that has this name.
LastReturned(entries, name) ==
    LET i == CHOOSE j \in 1..Len(entries) :
                 /\ entries[j].Name = name
                 /\ \A m \in (j + 1)..Len(entries) : entries[m].Name # name
    IN  entries[i].Value

\* C1: for pairwise distinct requested names and a response that reports no
\* invalid names, the result has exactly the requested names as its keys;
\* a returned name maps to the returned value, a name that is not returned
\* maps to None, and a returned name that was not requested is no key.
C1_NullFilling ==
    (/\ BatchAnswered
     /\ ~Truthy(response.InvalidParameters)
     /\ Distinct(call.ssm_key_names))
    => /\ outcome.kind = "return"
       /\ Len(outcome.value.items) = Len(call.ssm_key_names)
       /\ Keys(outcome.value.items) = Range(call.ssm_key_names)
       /\ \A name \in Range(call.ssm_key_names) :
              ValueOf(outcome.value.items, name) =
                  IF Returns(response.Parameters, name)
                  THEN LastReturned(response.Parameters, name)
                  ELSE None
       /\ \A i \in 1..Len(response.Parameters) :
              response.Parameters[i].Name \notin Range(call.ssm_key_names)
                  => response.Parameters[i].Name \notin Keys(outcome.value.items)

\* Two distinct names are requested; one is returned with a value, one is
\* not returned, and the response holds a name that was not requested.
C1_Witness ==
    /\ BatchAnswered
    /\ ~Truthy(response.InvalidParameters)
    /\ Distinct(call.ssm_key_names)
    /\ Len(call.ssm_key_names) = 2
    /\ outcome.kind = "return"
    /\ \E name \in Range(call.ssm_key_names) :
           /\ Returns(response.Parameters, name)
           /\ ValueOf(outcome.value.items, name) # None
    /\ \E name \in Range(call.ssm_key_names) : ~Returns(response.Parameters, name)
    /\ \E i \in 1..Len(response.Parameters) :
           response.Parameters[i].Name \notin Range(call.ssm_key_names)

\* C5: when the response reports a non-empty list of invalid names, the call
\* raises InvalidParametersError carrying exactly that list and returns no
\* result, also when the response holds entries for requested names.
C5_InvalidNames ==
    (BatchAnswered /\ Truthy(response.InvalidParameters))
    => /\ outcome.kind = "raise"
       /\ outcome.error.type = "InvalidParametersError"
       /\ outcome.error.invalid_parameters = response.InvalidParameters.list

\* Invalid names are reported next to a valid entry for a requested name.
C5_Witness ==
    /\ BatchAnswered
    /\ Truthy(response.InvalidParameters)
    /\ \E name \in Range(call.ssm_key_names) :
           /\ Returns(response.Parameters, name)
           /\ LastReturned(response.Parameters, name) # None
    /\ outcome.kind = "raise"

----------------------------------------------------------------------------
(* get_parameters_by_path: the properties.                                 *)

\* The call is get_parameters_by_path and the collaborator has answered it.
PathAnswered == call.op = "get_parameters_by_path" /\ ~response.raised

Entries == 1..Len(response.Parameters)

\* s with its first occurrence of old removed.
RECURSIVE RemoveFirstFrom(_, _, _)
RemoveFirstFrom(s, old, i) ==
    IF i > Len(s) THEN s
    ELSE IF StartsAt(s, old, i)
    THEN SubSeq(s, 1, i - 1) \o SubSeq(s, i + Len(old), Len(s))
    ELSE RemoveFirstFrom(s, old, i + 1)

\* The suffix path of the i-th returned entry: its name with the base path
\* removed.
SuffixPath(i) ==
    RemoveFirstFrom(response.Parameters[i].Name, call.ssm_base_path, 1)

EndsInSep(path) == path # <<>> /\ path[Len(path)] = Sep

IsPrefix(s, t) == Len(s) <= Len(t) /\ SubSeq(t, 1, Len(s)) = s

\* A parameter name as the store keeps it: a separator, then segments that
\* are not empty.
WellFormed(name) ==
    /\ name # <<>> /\ Head(name) = Sep
    /\ <<>> \notin Range(Split(Tail(name)))

\* The level of the hierarchy that a base path names.
Level(ssm_base_path) ==
    IF EndsInSep(ssm_base_path) THEN ssm_base_path ELSE ssm_base_path \o <<Sep>>

Under(name, ssm_base_path) ==
    /\ IsPrefix(Level(ssm_base_path), name)
    /\ Len(name) > Len(Level(ssm_base_path))

\* What the collaborator lists for Recursive=False: the names one segment
\* below the base path.
DirectlyUnder(name, ssm_base_path) ==
    /\ Under(name, ssm_base_path)
    /\ \A i \in (Len(Level(ssm_base_path)) + 1)..Len(name) : name[i] # Sep

\* The response lists well-formed names below the base path, and for
\* Recursive=False none that is deeper than one segment.
Listing ==
    /\ PathAnswered
    /\ \A i \in Entries :
           /\ WellFormed(response.Parameters[i].Name)
           /\ Under(response.Parameters[i].Name, call.ssm_base_path)
           /\ ~call.recursive =>
                  DirectlyUnder(response.Parameters[i].Name, call.ssm_base_path)

\* The leaves of a nested dict, each with the keys that lead to it.
RECURSIVE LeavesFrom(_, _)
LeavesFrom(x, walked) ==
    IF IsDict(x)
    THEN UNION {LeavesFrom(x.d[key], Append(walked, key)) : key \in DOMAIN x.d}
    ELSE {<<walked, x>>}

Leaves(x) == LeavesFrom(x, <<>>)

\* C2: with a non-empty required set the call raises MissingParameterError
\* exactly when a required name is no suffix path of a returned entry; the
\* error lists exactly those names and carries the base path. The nested
\* and recursive flags play no part, and a None value counts as present.
C2_RequiredParameters ==
    (Listing /\ call.required_parameters # <<>>)
    => LET missing == {name \in Range(call.required_parameters) :
                          \A i \in Entries : SuffixPath(i) # name}
       IN  /\ (outcome.kind = "raise") <=> (missing # {})
           /\ missing # {} =>
                  /\ outcome.error.type = "MissingParameterError"
                  /\ Range(outcome.error.parameter_names) = missing
                  /\ Len(outcome.error.parameter_names) = Cardinality(missing)
                  /\ outcome.error.parameter_path = call.ssm_base_path

\* C3: unless recursive and nested are both true, the result maps, for every
\* returned entry, the entry's suffix path stripped of its leading
\* separators to the entry's value, and no returned key starts with a
\* separator. (Stated for entries that share their key with no other.)
C3_FlatOutput ==
    (Listing /\ ~(call.recursive /\ call.nested) /\ outcome.kind = "return")
    => /\ \A i \in Entries :
              LET key == LStrip(SuffixPath(i))
              IN  /\ key \in Keys(outcome.value.items)
                  /\ (\A j \in Entries \ {i} : LStrip(SuffixPath(j)) # key)
                         => ValueOf(outcome.value.items, key) =
                                response.Parameters[i].Value
       /\ \A key \in Keys(outcome.value.items) : key = <<>> \/ Head(key) # Sep

\* C4: with recursive and nested, a base path that ends in a separator and
\* suffix paths that have no empty segment and of which none is a
\* segment-prefix of another, the leaves of the returned tree are exactly
\* the returned values, each reached by walking the segments of its suffix
\* path.
C4_NestedOutput ==
    (/\ Listing
     /\ call.recursive /\ call.nested
     /\ outcome.kind = "return"
     /\ EndsInSep(call.ssm_base_path)
     /\ \A i \in Entries : <<>> \notin Range(Split(SuffixPath(i)))
     /\ \A i, j \in Entries :
            i # j => ~IsPrefix(Split(SuffixPath(i)), Split(SuffixPath(j))))
    => Leaves(outcome.value) =
           {<<Split(SuffixPath(i)), response.Parameters[i].Value>> : i \in Entries}

\* C6: with recursive and nested, a base path without the trailing separator
\* gives the tree that the same path with the separator gives for the same
\* entries, and no top-level key is the empty segment. (Stated for names
\* that hold the base path once, as their prefix.)
C6_TrailingSeparator ==
    (/\ Listing
     /\ call.recursive /\ call.nested
     /\ call.required_parameters = <<>>
     /\ call.ssm_base_path # <<>>
     /\ ~EndsInSep(call.ssm_base_path)
     /\ \A i \in Entries :
            Replace(response.Parameters[i].Name, call.ssm_base_path) = SuffixPath(i))
    => /\ outcome = get_parameters_by_path(call.ssm_base_path \o <<Sep>>, TRUE,
                                           TRUE, <<>>, response)
       /\ <<>> \notin DOMAIN outcome.value.d

NonRecursiveListing ==
    /\ PathAnswered
    /\ ~call.recursive
    /\ \A i \in Entries :
           DirectlyUnder(response.Parameters[i].Name, call.ssm_base_path)

C14_FirstOccurrence ==
    PathAnswered
    => /\ Keys(SuffixMap(call.ssm_base_path, response.Parameters)) =
              {SuffixPath(i) : i \in Entries}
       /\ (~(call.recursive /\ call.nested) /\ outcome.kind = "return")
              => Keys(outcome.value.items) =
                     {LStrip(SuffixPath(i)) : i \in Entries}


----------------------------------------------------------------------------
(* _parse_parameters: the properties.                                      *)

\* The loop has visited every item.
MergeDone == call.op = "_parse_parameters" /\ pending = {}

\* The items in one fixed order.
RECURSIVE InOrder(_)
InOrder(items) ==
    IF items = {} THEN <<>>
    ELSE LET item == CHOOSE x \in items : TRUE
         IN  <<item>> \o InOrder(items \ {item})

\* No suffix path is a proper segment-prefix of another.
PrefixFree(items) ==
    \A x, y \in items :
        x # y => ~IsPrefix(Split(x.k), Split(y.k))

\* C7 as stated: the items have pairwise different suffix paths, and the
\* tree is the same for every order in which they are merged: whatever
\* order the loop took, it ends with the tree of one fixed order. (Stated
\* for suffix paths without empty segments.)
C7_AnyOrder ==
    (MergeDone /\ \A item \in call.parameters : <<>> \notin Range(Split(item.k)))
    => parsed_dict = parse_parameters(InOrder(call.parameters))

\* C7 as amended: the same, for suffix paths of which moreover none is a
\* proper segment-prefix of another.
C7_OrderIndependent ==
    (MergeDone /\ PrefixFree(call.parameters))
    => parsed_dict = parse_parameters(InOrder(call.parameters))

\* Two items below one first segment have been merged into one subtree.
C7_Witness ==
    /\ MergeDone
    /\ PrefixFree(call.parameters)
    /\ Cardinality(call.parameters) = 2
    /\ \E key \in DOMAIN parsed_dict.d :
           /\ IsDict(parsed_dict.d[key])
           /\ Cardinality(DOMAIN parsed_dict.d[key].d) = 2
           /\ \A sub \in DOMAIN parsed_dict.d[key].d :
                  parsed_dict.d[key].d[sub] = Str("v1")

\* What walking the segments from the root of a tree reaches, if anything.
RECURSIVE Walk(_, _)
Walk(x, segments) ==
    IF segments = <<>> THEN [found |-> TRUE, at |-> x]
    ELSE IF IsDict(x) /\ Head(segments) \in DOMAIN x.d
    THEN Walk(x.d[Head(segments)], Tail(segments))
    ELSE [found |-> FALSE]

\* The item that this pass of the loop merges.
Merges(item) == item \in pending /\ pending' = pending \ {item}

\* C13 as stated: after an item is merged into the accumulator, walking the
\* segments of its suffix path from the root reaches a leaf that holds its
\* value, whatever the accumulator held before. (Stated for suffix paths
\* without empty segments.)
C13_LaterWins ==
    [][\A item \in pending :
          (/\ Merges(item)
           /\ \A other \in call.parameters : <<>> \notin Range(Split(other.k)))
          =>  Walk(parsed_dict', Split(item.k)) = [found |-> TRUE, at |-> item.v]]_vars

\* C13 as amended: the walk reaches a leaf that holds the merged value when
\* the value is a string; when the value is None it reaches what the
\* accumulator already held at that path, leaf or subtree, and a leaf that
\* holds None when the accumulator held nothing there.
C13_LaterStringWins ==
    [][\A item \in pending :
          Merges(item) =>
              LET before == Walk(parsed_dict, Split(item.k))
              IN  Walk(parsed_dict', Split(item.k)) =
                      [found |-> TRUE,
                       at |-> IF item.v = None /\ before.found
                              THEN before.at ELSE item.v]]_vars

\* A string merged last at a path where the accumulator held a subtree: the
\* subtree is gone and the string is the leaf.
C13_Witness ==
    /\ MergeDone
    /\ call.parameters = {[k |-> <<"a", Sep, "a">>, v |-> None],
                          [k |-> <<"a">>, v |-> Str("v1")]}
    /\ parsed_dict = Dict(<<"a">> :> Str("v1"))


----------------------------------------------------------------------------
(* put_parameter and the requests: the properties.                         *)

\* A call of put_parameter begins and ends in this step.
PutStep == call = NoCall /\ call'.op = "put_parameter"

\* C9: every put passes the caller's overwrite flag unchanged, with type
\* "String" and tier "Standard"; against a collaborator that refuses only a
\* write without overwrite to a name that has a value, a put to a path that
\* an earlier put has written raises the collaborator's "already exists"
\* error and leaves the stored value when overwrite is false, and returns
\* and replaces the stored value when overwrite is true.
C9_PutConflict ==
    [][PutStep =>
          /\ requests' = <<[op |-> "put_parameter", Name |-> call'.path,
                            Value |-> call'.value, Type |-> "String",
                            Overwrite |-> call'.overwrite, Tags |-> call'.tags,
                            Tier |-> "Standard"]>>
          /\ (store[call'.path].present /\ response' # Failure) =>
                 IF call'.overwrite
                 THEN /\ outcome'.kind = "return"
                      /\ store'[call'.path].Value = call'.value
                 ELSE /\ outcome' = Raised(ClientError("ParameterAlreadyExists"))
                      /\ store' = store]_vars

\* A path has been written and overwritten, and a put of another value
\* without overwrite has just been refused.
C9_Witness ==
    /\ call.op = "put_parameter"
    /\ ~call.overwrite
    /\ outcome = Raised(ClientError("ParameterAlreadyExists"))
    /\ store[call.path].present
    /\ store[call.path].Version = 2
    /\ store[call.path].Value # call.value

\* C10: every call of the three methods sends exactly one request, also a
\* call that ends in InvalidParametersError or MissingParameterError; and
\* when the request fails, the caller gets the collaborator's failure.
C10_OneRequest ==
    call.op \in {"get_parameters", "get_parameters_by_path", "put_parameter"}
    => /\ Len(requests) = 1
       /\ requests[1].op = call.op
       /\ response.raised => outcome = Raised(response.error)

\* A listing whose request failed: one request, the failure raised.
C10_Witness ==
    /\ call.op = "get_parameters_by_path"
    /\ response.raised
    /\ Len(requests) = 1
    /\ outcome = Raised(response.error)

----------------------------------------------------------------------------
(* cli.put: the properties.                                                *)

\* The remote put has answered that the parameter already exists.
Conflict ==
    response.raised /\ response.error = ClientError("ParameterAlreadyExists")

\* A file is given with a --yaml-node that the file does not hold.
NodeAbsent ==
    /\ call.file # None
    /\ IsTrue(call.yaml_node)
    /\ ~HasNode(Documents[call.file.s], call.yaml_node.s)

\* C11: the put command ends with code -2 when neither --value nor a file
\* is given, with another non-zero code when a file is given and the node
\* named by --yaml-node is not in it, and with code -3 when the remote put
\* reports that the parameter already exists; the three codes differ, and
\* in the first two cases no put request is sent.
C11_ExitCodes ==
    call.op = "put"
    => /\ (call.value = None /\ call.file = None)
              => (outcome = Exit(-2) /\ requests = <<>>)
       /\ (call.value = None /\ NodeAbsent)
              => /\ outcome.kind = "exit"
                 /\ outcome.code \notin {0, -2, -3}
                 /\ requests = <<>>
       /\ Conflict => (outcome.kind = "exit" /\ outcome.code = -3)

\* The value that the command is to send: the --value string when given,
\* else the text of the file, or with --yaml-node the JSON of that node.
SelectedValue ==
    IF IsTrue(call.value) THEN call.value.s
    ELSE IF call.yaml_node = None THEN YamlText(Documents[call.file.s])
    ELSE dumps_str(Node(Documents[call.file.s], call.yaml_node.s))

\* C12: a put command with --value, or with a file and no --yaml-node, or
\* with a file and a --yaml-node that the file holds, sends exactly one put
\* request, with its path, the selected value and the overwrite flag, and
\* ends with code 0 when the collaborator takes the write. (Stated for a
\* --value that is not the empty string.)
C12_ValueSelection ==
    (/\ call.op = "put"
     /\ call.value # Str("")
     /\ \/ call.value # None
        \/ /\ call.file # None
           /\ \/ call.yaml_node = None
              \/ /\ call.yaml_node # Str("")
                 /\ HasNode(Documents[call.file.s], call.yaml_node.s))
    => /\ requests = <<PutRequest(call.path, SelectedValue, call.overwrite, <<>>)>>
       /\ ~response.raised => outcome = Exit(0)

====
